---- MODULE Spec2Model ----
(***************************************************************************)
(* Model of onioningestor/operators/__init__.py: the Operator base class.  *)
(*                                                                         *)
(* Python strings are sequences of one-character strings.  Python values   *)
(* that reach a variable are tagged records (PyStr, PyInt, PyList, PyDict, *)
(* PyNone, PyBool), a dict being a function from keys (strings) to values. *)
(***************************************************************************)
EXTENDS Integers, Sequences, FiniteSets, TLC

(***************************************************************************)
(* Bounds of the model.                                                    *)
(***************************************************************************)
MaxSources == 2
MaxBatch == 2
MaxLen == 3
RecursionLimit == 2

(***************************************************************************)
(* Python values.                                                          *)
(***************************************************************************)
PyNone == [t |-> "None"]
PyStr(s) == [t |-> "str", s |-> s]
PyInt(n) == [t |-> "int", n |-> n]
PyBool(b) == [t |-> "bool", b |-> b]
PyList(xs) == [t |-> "list", items |-> xs]
PyDict(f) == [t |-> "dict", d |-> f]

EmptyMap == [k \in {} |-> PyNone]

\* String literals of the source.
hiddenService == <<"h","i","d","d","e","n","S","e","r","v","i","c","e">>
simple_html == <<"s","i","m","p","l","e","-","h","t","m","l">>
regex_blacklist == <<"r","e","g","e","x","-","b","l","a","c","k","l","i","s","t">>
status == <<"s","t","a","t","u","s">>
blocked == <<"b","l","o","c","k","e","d">>
HTML == <<"H","T","M","L">>

\* All strings over alphabet cs of length at most n.
StrUpTo(cs, n) == UNION {[1..k -> cs] : k \in 0..n}

\* All sequences over set S of length at most n.
SeqUpTo(S, n) == UNION {[1..k -> S] : k \in 0..n}

RECURSIVE Join(_, _)
\* sep.join(parts)
Join(sep, parts) ==
    IF parts = <<>> THEN <<>>
    ELSE IF Len(parts) = 1 THEN parts[1]
    ELSE parts[1] \o sep \o Join(sep, Tail(parts))

(***************************************************************************)
(* The re module, as far as line 43 and lines 77/81 use it.                *)
(***************************************************************************)
UpperCase == <<"A","B","C","D","E","F","G","H","I","J","K","L","M",
               "N","O","P","Q","R","S","T","U","V","W","X","Y","Z">>
LowerCase == <<"a","b","c","d","e","f","g","h","i","j","k","l","m",
               "n","o","p","q","r","s","t","u","v","w","x","y","z">>

\* Case folding of one character under re.IGNORECASE.
Lower(c) ==
    IF \E i \in 1..Len(UpperCase) : UpperCase[i] = c
    THEN LowerCase[CHOOSE i \in 1..Len(UpperCase) : UpperCase[i] = c]
    ELSE c

\* The characters re.escape puts a backslash before.
SpecialChars == {"(", ")", "[", "]", "{", "}", "?", "*", "+", "-", "|",
                 "^", "$", "\\", ".", "&", "~", "#", " "}

RECURSIVE escape(_)
\* re.escape(word)
escape(word) ==
    IF word = <<>> THEN <<>>
    ELSE (IF Head(word) \in SpecialChars
          THEN <<"\\", Head(word)>> ELSE <<Head(word)>>) \o escape(Tail(word))

RECURSIVE escapeAll(_)
\* [re.escape(word) for word in allowed_sources]
escapeAll(words) ==
    IF words = <<>> THEN <<>>
    ELSE <<escape(Head(words))>> \o escapeAll(Tail(words))

Lit(c) == [kind |-> "lit", ch |-> c]
AnyChar == [kind |-> "any", ch |-> "."]

RECURSIVE parsePattern(_, _, _, _)
\* re.compile: the pattern is a '|'-separated list of alternatives, each a
\* sequence of atoms; a backslash makes the next character a literal, an
\* unescaped '.' matches any character.  (No other metacharacter reaches
\* the parser unescaped in this model.)
parsePattern(p, i, cur, alts) ==
    IF i > Len(p) THEN Append(alts, cur)
    ELSE IF p[i] = "\\" /\ i < Len(p)
         THEN parsePattern(p, i + 2, Append(cur, Lit(p[i + 1])), alts)
    ELSE IF p[i] = "|" THEN parsePattern(p, i + 1, <<>>, Append(alts, cur))
    ELSE IF p[i] = "." THEN parsePattern(p, i + 1, Append(cur, AnyChar), alts)
    ELSE parsePattern(p, i + 1, Append(cur, Lit(p[i])), alts)

\* re.compile(pattern, re.IGNORECASE)
compile(pattern) == parsePattern(pattern, 1, <<>>, <<>>)

\* Atom a matches character c, ignoring case.
atomMatches(a, c) == a.kind = "any" \/ Lower(a.ch) = Lower(c)

\* Alternative alt matches text at position pos (1-based).
altMatchesAt(alt, text, pos) ==
    /\ pos + Len(alt) - 1 <= Len(text)
    /\ \A k \in 1..Len(alt) : atomMatches(alt[k], text[pos + k - 1])

\* Length of the match at pos: the first alternative, in order, that matches
\* there (and is not empty when the previous match was empty at pos); -1 if
\* none.
matchLen(alts, text, pos, mustAdvance) ==
    LET ok(k) == /\ altMatchesAt(alts[k], text, pos)
                 /\ (Len(alts[k]) > 0 \/ ~mustAdvance)
    IN IF \E k \in 1..Len(alts) : ok(k)
       THEN Len(alts[CHOOSE k \in 1..Len(alts) :
                       ok(k) /\ \A j \in 1..(k - 1) : ~ok(j)])
       ELSE -1

RECURSIVE findallFrom(_, _, _, _, _)
\* The scan of findall from pos on: a match is appended and the scan goes on
\* behind it; an empty match must be followed by a non-empty one or by a
\* step forward.
findallFrom(alts, text, pos, mustAdvance, acc) ==
    IF pos > Len(text) + 1 THEN acc
    ELSE LET n == matchLen(alts, text, pos, mustAdvance)
         IN IF n < 0 THEN findallFrom(alts, text, pos + 1, FALSE, acc)
            ELSE findallFrom(alts, text, pos + n, n = 0,
                             Append(acc, SubSeq(text, pos, pos + n - 1)))

\* pattern.findall(text): the non-overlapping matches, left to right.
findall(alts, text) == findallFrom(alts, text, 1, FALSE, <<>>)

\* word occurs in text, ignoring case.
IsSubstringIgnoreCase(word, text) ==
    \E pos \in 1..(Len(text) + 1) :
        /\ pos + Len(word) - 1 <= Len(text)
        /\ \A k \in 1..Len(word) : Lower(word[k]) = Lower(text[pos + k - 1])

(***************************************************************************)
(* The json module and str(), as far as line 54 uses them.                 *)
(***************************************************************************)
Digits == <<"0","1","2","3","4","5","6","7","8","9">>
IsDigit(c) == \E i \in 1..Len(Digits) : Digits[i] = c
DigitVal(c) == (CHOOSE i \in 1..Len(Digits) : Digits[i] = c) - 1
Whitespace == {" ", "\t", "\n", "\r"}

JSONDecodeError == "JSONDecodeError"
RecursionError == "RecursionError"

Decoded(v, e) == [ok |-> TRUE, val |-> v, end |-> e, err |-> "none"]
Failed(e) == [ok |-> FALSE, val |-> PyNone, end |-> 0, err |-> e]

RECURSIVE skipWs(_, _)
\* Index of the first non-whitespace character at or after i.
skipWs(s, i) ==
    IF i <= Len(s) /\ s[i] \in Whitespace THEN skipWs(s, i + 1) ELSE i

RECURSIVE digitsEnd(_, _)
\* Index after the run of digits that starts at i.
digitsEnd(s, i) ==
    IF i <= Len(s) /\ IsDigit(s[i]) THEN digitsEnd(s, i + 1) ELSE i

RECURSIVE toInt(_)
toInt(ds) ==
    IF ds = <<>> THEN 0
    ELSE 10 * toInt(SubSeq(ds, 1, Len(ds) - 1)) + DigitVal(ds[Len(ds)])

\* A JSON integer at i: -?(0|[1-9][0-9]*).  (No '.', 'e' or 'E' occurs in
\* the payloads of this model, so fractions and exponents are left out.)
scanNumber(s, i) ==
    LET neg == s[i] = "-"
        j == IF neg THEN i + 1 ELSE i
    IN IF j > Len(s) \/ ~IsDigit(s[j]) THEN Failed(JSONDecodeError)
       ELSE LET e == IF s[j] = "0" THEN j + 1 ELSE digitsEnd(s, j)
                n == toInt(SubSeq(s, j, e - 1))
            IN Decoded(PyInt(IF neg THEN 0 - n ELSE n), e)

\* A JSON string whose opening quote is at i - 1.  (No backslash occurs in
\* the payloads of this model, so escapes are left out; a control
\* character inside a string is an error.)
scanString(s, i) ==
    IF \E j \in i..Len(s) : s[j] = "\""
    THEN LET j == CHOOSE j \in i..Len(s) :
                      s[j] = "\"" /\ \A k \in i..(j - 1) : s[k] # "\""
         IN IF \E k \in i..(j - 1) : s[k] \in {"\t", "\n", "\r"}
            THEN Failed(JSONDecodeError)
            ELSE Decoded(PyStr(SubSeq(s, i, j - 1)), j + 1)
    ELSE Failed(JSONDecodeError)

HasPrefixAt(s, i, w) == i + Len(w) - 1 <= Len(s) /\ SubSeq(s, i, i + Len(w) - 1) = w

RECURSIVE scanOnce(_, _, _)
RECURSIVE arrayItems(_, _, _, _)
RECURSIVE objectItems(_, _, _, _)

\* The elements of an array, the first of which starts at i.
arrayItems(s, i, depth, acc) ==
    LET r == scanOnce(s, i, depth)
    IN IF ~r.ok THEN r
       ELSE LET j == skipWs(s, r.end)
            IN IF j > Len(s) THEN Failed(JSONDecodeError)
               ELSE IF s[j] = "]" THEN Decoded(PyList(Append(acc, r.val)), j + 1)
               ELSE IF s[j] = ","
                    THEN arrayItems(s, skipWs(s, j + 1), depth, Append(acc, r.val))
               ELSE Failed(JSONDecodeError)

\* The members of an object, the first key's opening quote being at i.
objectItems(s, i, depth, acc) ==
    LET key == scanString(s, i + 1)
    IN IF ~key.ok THEN key
       ELSE LET j == skipWs(s, key.end)
            IN IF j > Len(s) \/ s[j] # ":" THEN Failed(JSONDecodeError)
               ELSE LET v == scanOnce(s, skipWs(s, j + 1), depth)
                    IN IF ~v.ok THEN v
                       ELSE LET m == skipWs(s, v.end)
                                d == [k \in DOMAIN acc \cup {key.val.s} |->
                                         IF k = key.val.s THEN v.val ELSE acc[k]]
                            IN IF m > Len(s) THEN Failed(JSONDecodeError)
                               ELSE IF s[m] = "}" THEN Decoded(PyDict(d), m + 1)
                               ELSE IF s[m] = ","
                                    THEN LET n == skipWs(s, m + 1)
                                         IN IF n <= Len(s) /\ s[n] = "\""
                                            THEN objectItems(s, n, depth, d)
                                            ELSE Failed(JSONDecodeError)
                               ELSE Failed(JSONDecodeError)

parseArray(s, i, depth) ==
    LET j == skipWs(s, i)
    IN IF j <= Len(s) /\ s[j] = "]" THEN Decoded(PyList(<<>>), j + 1)
       ELSE arrayItems(s, j, depth, <<>>)

parseObject(s, i, depth) ==
    LET j == skipWs(s, i)
    IN IF j > Len(s) THEN Failed(JSONDecodeError)
       ELSE IF s[j] = "}" THEN Decoded(PyDict(EmptyMap), j + 1)
       ELSE IF s[j] # "\"" THEN Failed(JSONDecodeError)
       ELSE objectItems(s, j, depth, EmptyMap)

\* The scanner: one JSON value starting at i.  Entering an array or an
\* object is a recursive call, refused with RecursionError at the
\* interpreter's recursion limit.
scanOnce(s, i, depth) ==
    IF i > Len(s) THEN Failed(JSONDecodeError)
    ELSE IF s[i] = "\"" THEN scanString(s, i + 1)
    ELSE IF s[i] = "{"
         THEN IF depth >= RecursionLimit THEN Failed(RecursionError)
              ELSE parseObject(s, i + 1, depth + 1)
    ELSE IF s[i] = "["
         THEN IF depth >= RecursionLimit THEN Failed(RecursionError)
              ELSE parseArray(s, i + 1, depth + 1)
    ELSE IF HasPrefixAt(s, i, <<"n","u","l","l">>) THEN Decoded(PyNone, i + 4)
    ELSE IF HasPrefixAt(s, i, <<"t","r","u","e">>) THEN Decoded(PyBool(TRUE), i + 4)
    ELSE IF HasPrefixAt(s, i, <<"f","a","l","s","e">>) THEN Decoded(PyBool(FALSE), i + 5)
    ELSE IF IsDigit(s[i]) \/ s[i] = "-" THEN scanNumber(s, i)
    ELSE Failed(JSONDecodeError)

\* json.loads(s): one value, surrounded by optional whitespace, and nothing
\* else.
loads(s) ==
    LET r == scanOnce(s, skipWs(s, 1), 0)
    IN IF ~r.ok THEN r
       ELSE IF skipWs(s, r.end) # Len(s) + 1 THEN Failed(JSONDecodeError)
       ELSE r

RECURSIVE intToStr(_)
intToStr(n) ==
    IF n < 10 THEN <<Digits[n + 1]>>
    ELSE intToStr(n \div 10) \o <<Digits[(n % 10) + 1]>>

RECURSIVE reprItems(_, _)
\* The "'key': 'value'" items of a dict of strings.
reprItems(d, keys) ==
    IF keys = {} THEN <<>>
    ELSE LET k == CHOOSE k \in keys : TRUE
         IN <<<<"'">> \o k \o <<"'", ":", " ", "'">> \o d[k].s \o <<"'">>>>
            \o reprItems(d, keys \ {k})

\* str(content)
str(content) ==
    IF content.t = "str" THEN content.s
    ELSE IF content.t = "int"
         THEN IF content.n < 0 THEN <<"-">> \o intToStr(0 - content.n)
              ELSE intToStr(content.n)
    ELSE IF content.t = "dict"
         THEN <<"{">> \o Join(<<",", " ">>, reprItems(content.d, DOMAIN content.d))
              \o <<"}">>
    ELSE <<"N","o","n","e">>

(***************************************************************************)
(* Inputs.                                                                 *)
(***************************************************************************)
\* Source literals: the empty literal, a word, and two words made of pattern
\* metacharacters.
Words == {<<>>, <<"a","b">>, <<".">>, <<"a","|","b">>}

\* Subject texts: record addresses and fetched contents.
Texts == {<<>>, <<"x","A","B">>, <<"b">>, <<"x",".">>, <<"a","|","b","x">>}

\* allowed_sources: None (the parameter's default) or a list of literals.
SourceLists == {PyNone} \cup {PyList(ws) : ws \in SeqUpTo(Words, MaxSources)}

\* Batches handed to process.
Batches == SeqUpTo(Texts, MaxBatch)

\* Raw payloads handed to response.
JsonChars == {"1", "\"", "[", "]"}
notJson == <<"n","o","t","-","j","s","o","n">>
objectA1 == <<"{", "\"", "a", "\"", ":", "1", "}">>
tooDeep == [i \in 1..(RecursionLimit + 1) |-> "["]
statusBlocked == PyDict([k \in {status} |-> PyStr(blocked)])

\* The JSON text of a page result, with or without its status member.
pageJson(withStatus, html) ==
    <<"{">>
    \o (IF withStatus
        THEN <<"\"">> \o status \o <<"\"", ":", " ", "\"", "o", "k", "\"", ",", " ">>
        ELSE <<>>)
    \o <<"\"">> \o HTML \o <<"\"", ":", " ", "\"">> \o html \o <<"\"", "}">>

opX == <<"o","p","X">>
addr1 == <<"a","d","d","r","1">>

PlainContents ==
    {PyStr(c) : c \in StrUpTo(JsonChars, MaxLen)}
    \cup {PyStr(notJson), PyStr(objectA1), PyStr(tooDeep), statusBlocked, PyInt(1)}
PageContents ==
    {PyStr(pageJson(w, h)) : w \in BOOLEAN, h \in Texts}
    \cup {PyStr(notJson), PyStr(tooDeep), PyStr(<<"1">>)}

\* The (content, onion, operator_name) triples response is called with.
ResponseArgs ==
    {[content |-> c, onion |-> PyStr(addr1), operator_name |-> opX] :
        c \in PlainContents}
    \cup {[content |-> c, onion |-> PyStr(u), operator_name |-> n] :
        c \in PageContents, u \in Texts, n \in {simple_html, opX}}

Types == {"URL", "HTML", "TEXT"}

(***************************************************************************)
(* class Operator                                                          *)
(***************************************************************************)
NoException == "none"

\* __init__, line 43: the compiled blacklist, or the TypeError of iterating
\* None.
OperatorInit(sources) ==
    IF sources.t # "list"
    THEN [exc |-> "TypeError", blacklist |-> <<>>]
    ELSE [exc |-> NoException,
          blacklist |-> compile(Join(<<"|">>, escapeAll(sources.items)))]

\* The dict display {operator_name: payload, 'hiddenService': onion}; of two
\* equal keys the later one wins.
envelope(operator_name, payload, onion) ==
    PyDict([k \in {operator_name, hiddenService} |->
               IF k = hiddenService THEN onion ELSE payload])

LogEntry(level, msg) == [level |-> level, msg |-> msg]

\* Line 54 with the roles of the two payloads swapped.
decodedEnvelopeRaw(content, onion, operator_name, r) ==
    [exc |-> NoException, ret |-> envelope(operator_name, content, onion),
     log |-> <<>>]

\* Line 54: the envelope of a payload that decoded.
decodedEnvelope(content, onion, operator_name, r) ==
    [exc |-> NoException, ret |-> envelope(operator_name, r.val, onion),
     log |-> <<>>]

\* Lines 55-57 keeping str(content) in place of content.
fallbackEnvelopeStr(content, onion, operator_name, r) ==
    [exc |-> NoException,
     ret |-> envelope(operator_name, PyStr(str(content)), onion),
     log |-> <<LogEntry("info", "JosnDecode Error")>>]

\* Lines 55-57: JSONDecodeError.
fallbackEnvelope(content, onion, operator_name, r) ==
    [exc |-> NoException, ret |-> envelope(operator_name, content, onion),
     log |-> <<LogEntry("info", "JosnDecode Error")>>]

\* The commented-out handler of lines 58-59 in place of lines 60-61.
failedEnvelopeNonePayload(content, onion, operator_name, r) ==
    [exc |-> NoException, ret |-> envelope(operator_name, PyNone, onion),
     log |-> <<>>]

\* Lines 60-61: any other exception is logged and the method falls off its
\* end, returning None.
failedEnvelope(content, onion, operator_name, r) ==
    [exc |-> NoException, ret |-> PyNone, log |-> <<LogEntry("error", r.err)>>]

\* response(content, onion, operator_name), lines 46-61.
response(content, onion, operator_name) ==
    LET r == loads(str(content))
    IN IF r.ok THEN decodedEnvelope(content, onion, operator_name, r)
       ELSE IF r.err = JSONDecodeError
            THEN fallbackEnvelope(content, onion, operator_name, r)
       ELSE failedEnvelope(content, onion, operator_name, r)

Outcome(exc, ret, resp, saved) ==
    [exc |-> exc, ret |-> ret, resp |-> resp, saved |-> saved]

\* Lines 79-80 without line 80.
markBlockedPopOnly(resp) ==
    LET inner == resp.d[simple_html].d
    IN PyDict([resp.d EXCEPT ![simple_html] =
                  PyDict([k \in DOMAIN inner \ {status} |-> inner[k]])])

\* Lines 79-80: pop 'status', then set it to 'blocked'.
markBlocked(resp) ==
    PyDict([resp.d EXCEPT ![simple_html] =
               PyDict([resp.d[simple_html].d EXCEPT ![status] = PyStr(blocked)])])

\* A save on every call.
savesAlways(matches, resp) == <<resp>>

\* No save at all.
savesNever(matches, resp) == <<>>

\* Lines 82-83: what is saved to the store.
saves(matches, resp) == IF matches # <<>> THEN <<resp>> ELSE <<>>

\* Lines 82-85: what is returned.
verdict(matches) == matches = <<>>

\* Lines 82-85.
decide(matches, resp) ==
    Outcome(NoException, PyBool(verdict(matches)), resp, saves(matches, resp))

Raise(exc, resp) == Outcome(exc, PyNone, resp, <<>>)

\* _onion_is_allowed(response, type), lines 72-85.  An exception leaves the
\* method with what it had done to the response until then.
onion_is_allowed(pattern, resp, ty) ==
    IF ty = "URL"
    THEN IF resp.t # "dict" THEN Raise("TypeError", resp)
         ELSE IF hiddenService \notin DOMAIN resp.d THEN Raise("KeyError", resp)
         ELSE IF resp.d[hiddenService].t # "str" THEN Raise("TypeError", resp)
         ELSE decide(findall(pattern, resp.d[hiddenService].s), resp)
    ELSE IF ty = "HTML"
    THEN IF resp.t # "dict" THEN Raise("TypeError", resp)
         ELSE IF simple_html \notin DOMAIN resp.d THEN Raise("KeyError", resp)
         ELSE IF resp.d[simple_html].t # "dict" THEN Raise("AttributeError", resp)
         ELSE IF status \notin DOMAIN resp.d[simple_html].d
              THEN Raise("KeyError", resp)
         ELSE LET marked == markBlocked(resp)
                  inner == marked.d[simple_html].d
              IN IF HTML \notin DOMAIN inner THEN Raise("KeyError", marked)
                 ELSE IF inner[HTML].t # "str" THEN Raise("TypeError", marked)
                 ELSE decide(findall(pattern, inner[HTML].s), marked)
    ELSE Raise("UnboundLocalError", resp)

\* The handler called whatever the verdict.
dispatchAlways(allowed, url) == <<url>>

\* Lines 91-94: the handler is called with the url of an allowed record.
dispatch(allowed, url) == IF allowed THEN <<url>> ELSE <<>>

\* A loop that goes on after an exception.
loopControlSwallow(e) == "process"

\* Lines 90-94: an exception leaves the loop and process.
loopControl(e) == IF e # NoException THEN "raised" ELSE "process"

\* Line 76: print(response).
printed(resp, ty) == IF ty = "URL" THEN <<resp>> ELSE <<>>

(***************************************************************************)
(* State.                                                                  *)
(***************************************************************************)
VARIABLES
    allowed_sources,  \* the constructor's argument
    blacklist,        \* self.blacklist, the compiled pattern
    es,               \* the store: the envelopes saved, in order
    logger,           \* the log: the entries written, in order
    stdout,           \* what print wrote
    pc,               \* "new", "ready", "process", "built", "checked",
                      \* "returned", "raised"
    raised,           \* the exception that reached the caller, or "none"
    onions,           \* process: the batch (the url of each record)
    idx,              \* process: position of the record at hand
    handled,          \* process: the urls handle_onion was called with
    trace,            \* process: what happened to which position, in order
    args,             \* response: its arguments
    result,           \* response: the object it returned
    type,             \* _onion_is_allowed: its type argument
    ret               \* _onion_is_allowed: what it returned

vars == <<allowed_sources, blacklist, es, logger, stdout, pc, raised, onions,
          idx, handled, trace, args, result, type, ret>>

NoArgs == [content |-> PyNone, onion |-> PyNone, operator_name |-> <<>>]

Init ==
    /\ allowed_sources \in SourceLists
    /\ blacklist = <<>>
    /\ es = <<>>
    /\ logger = <<>>
    /\ stdout = <<>>
    /\ pc = "new"
    /\ raised = NoException
    /\ onions = <<>>
    /\ idx = 1
    /\ handled = <<>>
    /\ trace = <<>>
    /\ args = NoArgs
    /\ result = PyNone
    /\ type = "none"
    /\ ret = PyNone

Event(pos, ev) == [pos |-> pos, ev |-> ev]

\* Operator(logger, elasticsearch, allowed_sources), lines 42-44.
Construct ==
    /\ pc = "new"
    /\ \E r \in {OperatorInit(allowed_sources)} :
          /\ blacklist' = r.blacklist
          /\ raised' = r.exc
          /\ pc' = IF r.exc = NoException THEN "ready" ELSE "raised"
    /\ UNCHANGED <<allowed_sources, es, logger, stdout, onions, idx, handled,
                   trace, args, result, type, ret>>

\* process(onions) is called, line 88.
Process ==
    /\ pc = "ready"
    /\ \E batch \in Batches : onions' = batch
    /\ idx' = 1
    /\ pc' = "process"
    /\ UNCHANGED <<allowed_sources, blacklist, es, logger, stdout, raised,
                   handled, trace, args, result, type, ret>>

\* One turn of the loop of lines 90-94.  What handle_onion does is the
\* subclass's business: it returns or it raises (the base class's raises).
ProcessOnion ==
    /\ pc = "process"
    /\ idx <= Len(onions)
    /\ \E handlerRaises \in BOOLEAN,
          env \in {response(statusBlocked, PyStr(onions[idx]), regex_blacklist)} :
        \E a \in {onion_is_allowed(blacklist, env.ret, "URL")} :
        \E calls \in {IF a.exc = NoException
                      THEN dispatch(a.ret.b, onions[idx]) ELSE <<>>} :
        \E e \in {IF a.exc # NoException THEN a.exc
                  ELSE IF calls # <<>> /\ handlerRaises THEN "NotImplementedError"
                  ELSE NoException} :
           /\ logger' = logger \o env.log
           /\ stdout' = stdout \o printed(env.ret, "URL")
           /\ es' = es \o a.saved
           /\ handled' = handled \o calls
           /\ trace' = trace
                  \o [k \in 1..Len(a.saved) |-> Event(idx, "save")]
                  \o [k \in 1..Len(calls) |-> Event(idx, "handle")]
                  \o (IF e # NoException THEN <<Event(idx, "raise")>> ELSE <<>>)
           /\ raised' = e
           /\ pc' = loopControl(e)
           /\ idx' = IF loopControl(e) = "process" THEN idx + 1 ELSE idx
    /\ UNCHANGED <<allowed_sources, blacklist, onions, args, result, type, ret>>

\* The loop is over and process returns.
ProcessReturn ==
    /\ pc = "process"
    /\ idx > Len(onions)
    /\ pc' = "returned"
    /\ UNCHANGED <<allowed_sources, blacklist, es, logger, stdout, raised,
                   onions, idx, handled, trace, args, result, type, ret>>

\* A subclass calls response(content, onion, operator_name), lines 46-61.
Response ==
    /\ pc = "ready"
    /\ \E a \in ResponseArgs :
        \E r \in {response(a.content, a.onion, a.operator_name)} :
           /\ args' = a
           /\ result' = r.ret
           /\ logger' = logger \o r.log
           /\ raised' = r.exc
           /\ pc' = IF r.exc = NoException THEN "built" ELSE "raised"
    /\ UNCHANGED <<allowed_sources, blacklist, es, stdout, onions, idx,
                   handled, trace, type, ret>>

\* ... and hands what it got to _onion_is_allowed(response, type), lines
\* 72-85.
IsAllowed ==
    /\ pc = "built"
    /\ \E ty \in Types :
        \E a \in {onion_is_allowed(blacklist, result, ty)} :
           /\ type' = ty
           /\ stdout' = stdout \o printed(result, ty)
           /\ result' = a.resp
           /\ es' = es \o a.saved
           /\ ret' = a.ret
           /\ raised' = a.exc
           /\ pc' = IF a.exc = NoException THEN "checked" ELSE "raised"
    /\ UNCHANGED <<allowed_sources, blacklist, logger, onions, idx, handled,
                   trace, args>>

Next ==
    \/ Construct
    \/ Process
    \/ ProcessOnion
    \/ ProcessReturn
    \/ Response
    \/ IsAllowed

Spec == Init /\ [][Next]_vars

(***************************************************************************)
(* Properties.                                                             *)
(***************************************************************************)
\* Number of events ev at position pos of the batch.
count(pos, ev) == Cardinality({k \in 1..Len(trace) : trace[k] = Event(pos, ev)})

\* process was called (its exceptions leave a "raise" event).
InProcess == pc \in {"process", "returned"} \/ (pc = "raised" /\ trace # <<>>)

\* process has ended, by return or by exception.
ProcessEnded == pc = "returned" \/ (pc = "raised" /\ trace # <<>>)

\* The positions the loop has dealt with.
Reached == {p \in 1..Len(onions) : p < idx \/ (p = idx /\ pc = "raised")}

\* The compiled matcher finds something in text.
Matches(text) == findall(blacklist, text) # <<>>

\* The text _onion_is_allowed looked at, once it has returned.
Subject ==
    IF type = "URL" THEN result.d[hiddenService].s
    ELSE result.d[simple_html].d[HTML].s

\* C1: while process runs and after it, no record is both archived and
\* handled, and each record is archived at most once and handled at most
\* once; the store and the handler have seen nothing but these events.
C1_NeverArchivedAndHandled ==
    InProcess =>
        /\ \A p \in 1..Len(onions) :
              /\ count(p, "save") <= 1
              /\ count(p, "handle") <= 1
              /\ count(p, "save") + count(p, "handle") <= 1
        /\ Len(es) = Cardinality({k \in 1..Len(trace) : trace[k].ev = "save"})
        /\ Len(handled) = Cardinality({k \in 1..Len(trace) : trace[k].ev = "handle"})

\* A batch has been processed in which one record was archived and another
\* handled.
C1_Witness == pc = "returned" /\ Len(es) >= 1 /\ Len(handled) >= 1

\* C2 as stated: once process has ended, archived + handled = N.
C2_ExactlyNOutcomes ==
    ProcessEnded => Len(es) + Len(handled) = Len(onions)

\* C2, amended: when process returns, archived + handled = N and every
\* record has exactly one outcome; when the handler raises at position i,
\* archived + handled = i, one outcome for each of the records 1..i.
C2_NOutcomesOnReturn ==
    /\ pc = "returned" =>
          /\ Len(es) + Len(handled) = Len(onions)
          /\ \A p \in 1..Len(onions) : count(p, "save") + count(p, "handle") = 1
    /\ (pc = "raised" /\ trace # <<>>) =>
          /\ Len(es) + Len(handled) = idx
          /\ \A p \in 1..idx : count(p, "save") + count(p, "handle") = 1
          /\ \A p \in (idx + 1)..Len(onions) :
                count(p, "save") + count(p, "handle") = 0

\* A batch of two or more has been processed to its end, with records
\* archived.
C2_Witness == pc = "returned" /\ Len(onions) >= 2 /\ Len(es) >= 1

\* What C3 says of one call of _onion_is_allowed that has returned: saved
\* once and False if the subject matches, nothing saved and True if not.
IsAllowedContract ==
    pc = "checked" =>
        IF Matches(Subject)
        THEN ret = PyBool(FALSE) /\ es = <<result>>
        ELSE ret = PyBool(TRUE) /\ es = <<>>

\* What C3 says of the record at position p of the batch.
RecordContract(p) ==
    IF Matches(onions[p])
    THEN count(p, "save") = 1 /\ count(p, "handle") = 0
    ELSE count(p, "save") = 0 /\ count(p, "handle") = 1

SomeLiteralIn(text) ==
    /\ allowed_sources.t = "list"
    /\ \E k \in 1..Len(allowed_sources.items) :
          IsSubstringIgnoreCase(allowed_sources.items[k], text)

\* C4: the matcher built by the constructor reports a match exactly when a
\* configured literal is a case-insensitive substring of the text: for the
\* records process has reached, and for the subject of _onion_is_allowed.
C4_MatchIffLiteralSubstring ==
    /\ InProcess => \A p \in Reached : (count(p, "save") = 1) <=> SomeLiteralIn(onions[p])
    /\ pc = "checked" => (ret = PyBool(FALSE) <=> SomeLiteralIn(Subject))

\* C5: when the handler raises for the record at position i, the exception
\* reaches the caller of process and the loop is over: the raise is the last
\* event, no record behind i is saved or handled, every record before i has
\* had its one outcome, and the events are in the order of the batch.
C5_HandlerFailureEndsBatch ==
    /\ \A j, k \in 1..Len(trace) : j <= k => trace[j].pos <= trace[k].pos
    /\ \A k \in 1..Len(trace) :
          trace[k].ev = "raise" =>
              /\ k = Len(trace)
              /\ pc = "raised"
              /\ raised = "NotImplementedError"
              /\ idx = trace[k].pos
              /\ count(idx, "handle") = 1
              /\ \A p \in 1..(idx - 1) :
                    count(p, "save") + count(p, "handle") = 1
              /\ \A p \in (idx + 1)..Len(onions) :
                    count(p, "save") + count(p, "handle") = 0

\* The handler raised for the first record of a batch of two.
C5_Witness == pc = "raised" /\ trace # <<>> /\ idx = 1 /\ Len(onions) = 2

\* C6: an operator constructed with an empty allowed_sources blocks nothing:
\* nothing is ever saved to the store.
C6_EmptySourcesBlockNothing ==
    allowed_sources = PyList(<<>>) => es = <<>>

RECURSIVE savedFrom(_)
\* The positions of the "save" events of trace from its k-th entry on.
savedFrom(k) ==
    IF k > Len(trace) THEN <<>>
    ELSE (IF trace[k].ev = "save" THEN <<trace[k].pos>> ELSE <<>>)
         \o savedFrom(k + 1)

\* The positions of the records saved, in the order of the store.
SavedPositions == savedFrom(1)

\* What C7 says with payload as the payload of the blocked record's
\* envelope.
BlockedEnvelopes(payload) ==
    InProcess =>
        /\ Len(SavedPositions) = Len(es)
        /\ \A k \in 1..Len(es) :
              /\ DOMAIN es[k].d = {regex_blacklist, hiddenService}
              /\ es[k].d[hiddenService] = PyStr(onions[SavedPositions[k]])
              /\ es[k].d[regex_blacklist] = payload
              /\ count(SavedPositions[k], "handle") = 0

\* C7 as stated: the envelope saved for a blocked record carries the
\* record's address and the payload "blocked", and the record is not handled.
C7_PayloadIsBlockedString == BlockedEnvelopes(PyStr(blocked))

\* C7, amended: the payload is the mapping {'status': 'blocked'}.
C7_PayloadIsStatusBlocked == BlockedEnvelopes(statusBlocked)

\* A record with a non-empty address has been archived.
C7_Witness ==
    /\ InProcess
    /\ Len(es) >= 1
    /\ es[1].d[hiddenService] = PyStr(<<"x", "A", "B">>)

\* C8: response returns an envelope whose payload is the decoded structure
\* (and not the raw string) when the payload is valid JSON and the raw
\* payload when it is not JSON, with the address it was given.
C8_DecodedOrRaw ==
    pc = "built" =>
        /\ loads(str(args.content)).ok =>
              /\ result = envelope(args.operator_name,
                                   loads(str(args.content)).val, args.onion)
              /\ result.d[args.operator_name] = loads(str(args.content)).val
              /\ args.content.t = "str" =>
                    result.d[args.operator_name] # args.content
              /\ result.d[hiddenService] = args.onion
        /\ loads(str(args.content)).err = JSONDecodeError =>
              /\ DOMAIN result.d = {args.operator_name, hiddenService}
              /\ result.d[args.operator_name] = args.content
              /\ result.d[hiddenService] = args.onion

\* response('{"a":1}', "addr1", "opX") has returned {"opX": {"a": 1}, ...}.
C8_Witness ==
    /\ pc = "built"
    /\ args.content = PyStr(objectA1)
    /\ result = envelope(opX, PyDict([k \in {<<"a">>} |-> PyInt(1)]), PyStr(addr1))

\* response was called and raised.
ResponseRaised == pc = "raised" /\ args # NoArgs /\ type = "none"

\* C9: response does not raise; a payload that is not JSON gives one "info"
\* entry and the raw envelope, any other failure an "error" entry and None;
\* and a None handed on to _onion_is_allowed is never saved to the store.
C9_FailuresOfResponse ==
    /\ ~ResponseRaised
    /\ pc = "built" =>
          /\ loads(str(args.content)).err = JSONDecodeError =>
                /\ logger = <<LogEntry("info", "JosnDecode Error")>>
                /\ result = envelope(args.operator_name, args.content, args.onion)
          /\ loads(str(args.content)).err = RecursionError =>
                /\ Len(logger) = 1
                /\ logger[1].level = "error"
                /\ result = PyNone
          /\ loads(str(args.content)).ok => logger = <<>>
    /\ (result = PyNone /\ args # NoArgs) => es = <<>>

\* response returned None, and _onion_is_allowed raised on it without
\* saving.
C9_Witness ==
    /\ pc = "raised"
    /\ type = "URL"
    /\ result = PyNone
    /\ Len(logger) = 1 /\ logger[1].level = "error"
    /\ es = <<>>

\* The response has a 'simple-html' dict with a 'status'.
HasStatus(resp) ==
    /\ resp.t = "dict"
    /\ simple_html \in DOMAIN resp.d
    /\ resp.d[simple_html].t = "dict"
    /\ status \in DOMAIN resp.d[simple_html].d

\* C10: _onion_is_allowed leaves the response as it is for type 'URL'; for
\* type 'HTML' it sets the status of the response to 'blocked', whether the
\* content matches or not, and changes nothing else.
C10_StatusOverwrittenForHTML ==
    [][(pc = "built" /\ pc' # "built") =>
        /\ type' = "URL" => result' = result
        /\ (type' = "HTML" /\ HasStatus(result)) =>
              /\ HasStatus(result')
              /\ result'.d[simple_html].d[status] = PyStr(blocked)
              /\ DOMAIN result'.d = DOMAIN result.d
              /\ \A k \in DOMAIN result.d \ {simple_html} :
                    result'.d[k] = result.d[k]
              /\ DOMAIN result'.d[simple_html].d = DOMAIN result.d[simple_html].d
              /\ \A k \in DOMAIN result.d[simple_html].d \ {status} :
                    result'.d[simple_html].d[k] = result.d[simple_html].d[k]
        /\ (type' = "HTML" /\ ~HasStatus(result)) => result' = result]_vars

\* A page whose content does not match was allowed and is left marked
\* 'blocked'.
C10_Witness ==
    /\ pc = "checked"
    /\ type = "HTML"
    /\ ret = PyBool(TRUE)
    /\ result.d[simple_html].d[status] = PyStr(blocked)

====
